---- MODULE Spec2Model ----
(***************************************************************************)
(* A model of the icndb client library (src/src/lib.rs, src/src/error.rs): *)
(* request construction, the transport call, the read of the body, the     *)
(* decode of the JSON envelope, the unescaping of the joke text and the    *)
(* mapping of failures to the three error kinds.                           *)
(*                                                                         *)
(* Texts (joke contents, names, URLs) are TLA+ strings.  A u64 is a tuple  *)
(* of four 16-bit limbs, most significant first, so that the whole range   *)
(* up to 2^64-1 is representable.  A response body is either text that is  *)
(* no JSON document or the JSON document the text denotes; JSON strings    *)
(* are given by their decoded content.                                     *)
(***************************************************************************)
EXTENDS Integers, Sequences, FiniteSets, TLC

(***************************************************************************)
(* Bounds of the model.                                                    *)
(***************************************************************************)
\* number of calls issued on the one client instance
MaxCalls == 2
\* number of fragments a server-sent joke text is composed of
MaxFrags == 3
\* number of category tags of a well-formed payload
MaxCats == 2

Calls == 1..MaxCalls

(***************************************************************************)
(* Text: str::contains and str::replace as unescape_content uses them.     *)
(***************************************************************************)
\* the entity unescape_content handles
ENTITY == "&quot;"
\* the text it is replaced with: one literal double-quote character
QUOTE == "\""

\* s[i..] starts with pat
StartsWithAt(s, i, pat) ==
    /\ i + Len(pat) - 1 <= Len(s)
    /\ SubSeq(s, i, i + Len(pat) - 1) = pat

\* str::contains
Contains(s, pat) == \E i \in 1..Len(s) : StartsWithAt(s, i, pat)

\* str::replace: the matches are found left to right and do not overlap; the
\* text between two matches is copied, each match becomes `to`.
RECURSIVE ReplaceFrom(_, _, _, _)
ReplaceFrom(s, i, from, to) ==
    IF i > Len(s) THEN ""
    ELSE IF StartsWithAt(s, i, from)
         THEN to \o ReplaceFrom(s, i + Len(from), from, to)
         ELSE SubSeq(s, i, i) \o ReplaceFrom(s, i + 1, from, to)

\* a replace that stops after the first match (str::replacen(.., 1))
ReplaceFirst(s, from, to) ==
    IF \E i \in 1..Len(s) : StartsWithAt(s, i, from)
    THEN LET i == CHOOSE j \in 1..Len(s) :
                    /\ StartsWithAt(s, j, from)
                    /\ \A k \in 1..(j - 1) : ~StartsWithAt(s, k, from)
         IN SubSeq(s, 1, i - 1) \o to \o SubSeq(s, i + Len(from), Len(s))
    ELSE s

Replace(s, from, to) == ReplaceFrom(s, 1, from, to)

(***************************************************************************)
(* u64 and its decimal literal ({} of format!).                            *)
(***************************************************************************)
U64(a, b, c, d) == <<a, b, c, d>>
U64Zero == U64(0, 0, 0, 0)
U64MAX == U64(65535, 65535, 65535, 65535)

DigitChar(d) == SubSeq("0123456789", d + 1, d + 1)

\* n divided by ten, limb by limb: <<quotient, remainder>>
RECURSIVE DivTen(_, _, _)
DivTen(n, i, r) ==
    IF i > Len(n) THEN <<<<>>, r>>
    ELSE LET cur == r * 65536 + n[i]
             rest == DivTen(n, i + 1, cur % 10)
         IN <<<<cur \div 10>> \o rest[1], rest[2]>>

RECURSIVE Digits(_)
Digits(n) ==
    IF n = U64Zero THEN ""
    ELSE LET qr == DivTen(n, 1, 0)
         IN Digits(qr[1]) \o DigitChar(qr[2])

\* Display for u64: no sign, no leading zero, "0" for zero
Decimal(n) == IF n = U64Zero THEN "0" ELSE Digits(n)

(***************************************************************************)
(* JSON documents and the derived Deserialize of the two wire structs.     *)
(***************************************************************************)
\* an object is the sequence of its members <<name, value>>, as written
JObj(members) == [t |-> "obj", v |-> members]
JArr(items) == [t |-> "arr", v |-> items]
JNull == [t |-> "null", v |-> 0]
JBool(b) == [t |-> "bool", v |-> b]
\* a number as the JSON parser classifies it: "uint" (a non-negative integer
\* literal that fits u64, with its value), "negint" or "float" (every other
\* number, an integer literal above 2^64-1 included)
JNum(kind, n) == [t |-> "num", v |-> [kind |-> kind, n |-> n]]
JUInt(n) == JNum("uint", n)
JStr(s) == [t |-> "str", v |-> s]
\* a body text that is no JSON document
NotJson(text) == [t |-> "text", v |-> text]

DeOk(x) == [ok |-> TRUE, v |-> x]
DeErr == [ok |-> FALSE]

\* id: u64
DeU64(j) == IF j.t = "num" /\ j.v.kind = "uint" THEN DeOk(j.v.n) ELSE DeErr

\* joke: String
DeString(j) == IF j.t = "str" THEN DeOk(j.v) ELSE DeErr

\* categories: Box<[String]>, the elements in their order
DeBoxStrings(j) ==
    IF j.t = "arr" /\ \A i \in 1..Len(j.v) : j.v[i].t = "str"
    THEN DeOk([i \in 1..Len(j.v) |-> j.v[i].v])
    ELSE DeErr

\* the three fields of ApiResponse, in declaration order
ApiResponseFields == <<"id", "joke", "categories">>

DeField(name, j) ==
    CASE name = "id" -> DeU64(j)
      [] name = "joke" -> DeString(j)
      [] name = "categories" -> DeBoxStrings(j)

\* visit_map of a derived struct: the members are taken in order; a member
\* named like a field fills that field's slot (an error if the slot is
\* already filled or the value has not the field's type), a member with any
\* other name is skipped; `slots` maps each field to <<>> or <<value>>.
RECURSIVE VisitMapApiResponse(_, _, _)
VisitMapApiResponse(members, i, slots) ==
    IF i > Len(members)
    THEN IF \E f \in DOMAIN slots : slots[f] = <<>>
         THEN DeErr
         ELSE DeOk([id |-> slots["id"][1], joke |-> slots["joke"][1],
                    categories |-> slots["categories"][1]])
    ELSE LET name == members[i][1]
             val == members[i][2]
         IN IF name \in DOMAIN slots
            THEN IF slots[name] # <<>>
                 THEN DeErr
                 ELSE LET r == DeField(name, val)
                      IN IF r.ok
                         THEN VisitMapApiResponse(members, i + 1,
                                  [slots EXCEPT ![name] = <<r.v>>])
                         ELSE DeErr
            ELSE VisitMapApiResponse(members, i + 1, slots)

\* visit_seq of ApiResponse: the fields by position, no element left over
VisitSeqApiResponse(items) ==
    IF Len(items) # Len(ApiResponseFields) THEN DeErr
    ELSE LET a == DeU64(items[1])
             b == DeString(items[2])
             c == DeBoxStrings(items[3])
         IN IF a.ok /\ b.ok /\ c.ok
            THEN DeOk([id |-> a.v, joke |-> b.v, categories |-> c.v])
            ELSE DeErr

\* ApiResponse with deny_unknown_fields: a member of another name is an error
DeApiResponseStrict(j) ==
    IF j.t = "obj" /\ \A i \in 1..Len(j.v) : j.v[i][1] \in {"id", "joke", "categories"}
    THEN VisitMapApiResponse(j.v, 1, [f \in {"id", "joke", "categories"} |-> <<>>])
    ELSE DeErr

\* #[derive(Deserialize)] struct ApiResponse
DeApiResponse(j) ==
    CASE j.t = "obj" ->
            VisitMapApiResponse(j.v, 1, [f \in {"id", "joke", "categories"} |-> <<>>])
      [] j.t = "arr" -> VisitSeqApiResponse(j.v)
      [] OTHER -> DeErr

RECURSIVE VisitMapWrapper(_, _, _)
VisitMapWrapper(members, i, slot) ==
    IF i > Len(members)
    THEN IF slot = <<>> THEN DeErr ELSE DeOk([value |-> slot[1]])
    ELSE LET name == members[i][1]
             val == members[i][2]
         IN IF name = "value"
            THEN IF slot # <<>>
                 THEN DeErr
                 ELSE LET r == DeApiResponse(val)
                      IN IF r.ok THEN VisitMapWrapper(members, i + 1, <<r.v>>)
                         ELSE DeErr
            ELSE VisitMapWrapper(members, i + 1, slot)

\* #[derive(Deserialize)] struct ApiResponseWrapper
DeApiResponseWrapper(j) ==
    CASE j.t = "obj" -> VisitMapWrapper(j.v, 1, <<>>)
      [] j.t = "arr" ->
            IF Len(j.v) # 1 THEN DeErr
            ELSE LET r == DeApiResponse(j.v[1])
                 IN IF r.ok THEN DeOk([value |-> r.v]) ELSE DeErr
      [] OTHER -> DeErr

\* serde_json::from_str::<ApiResponseWrapper>(&buf)
FromStr(buf) == IF buf.t = "text" THEN DeErr ELSE DeApiResponseWrapper(buf)

(***************************************************************************)
(* Errors (src/src/error.rs) and the Joke.                                 *)
(***************************************************************************)
\* an Api error tagged as a decode failure
ErrorApiAsIO == [kind |-> "IO", cause |-> "None"]

\* Error::api()
ErrorApi == [kind |-> "Api", cause |-> "None"]

\* a transport error tagged as a decode failure
FromHyperErrorAsIO(e) == [kind |-> "IO", cause |-> e]

\* From<hyper::Error> for Error
FromHyperError(e) == [kind |-> "Network", cause |-> e]

\* a read error tagged as an Api error
FromIoErrorAsApi(e) == [kind |-> "Api", cause |-> e]

\* From<io::Error> for Error
FromIoError(e) == [kind |-> "IO", cause |-> e]

\* From<ApiResponse> for Joke
IntoJoke(response) ==
    [id |-> response.id, content |-> response.joke, categories |-> response.categories]

\* unescape_content that replaces the first entity only
UnescapeFirstOnly(response) ==
    [id |-> response.id,
     content |-> ReplaceFirst(response.joke, ENTITY, QUOTE),
     categories |-> response.categories]

\* unescape_content that deletes the entity instead of replacing it
UnescapeByDeleting(response) ==
    [id |-> response.id,
     content |-> Replace(response.joke, ENTITY, ""),
     categories |-> response.categories]

\* unescape_content that loses the categories on the replacing branch
UnescapeDropsCategories(response) ==
    IF Contains(response.joke, ENTITY)
    THEN [id |-> response.id,
          content |-> Replace(response.joke, ENTITY, QUOTE),
          categories |-> <<>>]
    ELSE IntoJoke(response)

unescape_content(response) ==
    IF Contains(response.joke, ENTITY)
    THEN [id |-> response.id,
          content |-> Replace(response.joke, ENTITY, QUOTE),
          categories |-> response.categories]
    ELSE IntoJoke(response)

\* Result<T>
Ok(x) == [ok |-> TRUE, v |-> x]
Err(e) == [ok |-> FALSE, err |-> e]

\* unwrap_response: Result::map of unescape_content over the wrapper's value
unwrap_response(response) ==
    IF response.ok THEN Ok(unescape_content(response.v.value)) ELSE response

\* the tail of read_response: the match on serde_json::from_str(&buf)
ParseBuf(text) ==
    LET r == FromStr(text)
    IN IF r.ok THEN Ok(r.v) ELSE Err(ErrorApi)

(***************************************************************************)
(* Request construction: the four format! calls.                           *)
(***************************************************************************)
UrlNext(scheme) == scheme \o "://api.icndb.com/jokes/random"

UrlNextWithNames(scheme, first, last) ==
    scheme \o "://api.icndb.com/jokes/random?firstName=" \o first
           \o "&lastName=" \o last

UrlGetById(scheme, id) == scheme \o "://api.icndb.com/jokes/" \o Decimal(id)

\* get_by_id_with_names with the two names exchanged
UrlGetByIdWithNamesSwapped(scheme, id, first, last) ==
    scheme \o "://api.icndb.com/jokes/" \o Decimal(id)
           \o "?firstName=" \o last \o "&lastName=" \o first

UrlGetByIdWithNames(scheme, id, first, last) ==
    scheme \o "://api.icndb.com/jokes/" \o Decimal(id)
           \o "?firstName=" \o first \o "&lastName=" \o last

\* a call of one of the four operations with its arguments (an argument the
\* operation does not take is U64Zero or "")
Req(op, id, first, last) == [op |-> op, id |-> id, first |-> first, last |-> last]

RequestUrl(scheme, req) ==
    CASE req.op = "next" -> UrlNext(scheme)
      [] req.op = "next_with_names" -> UrlNextWithNames(scheme, req.first, req.last)
      [] req.op = "get_by_id" -> UrlGetById(scheme, req.id)
      [] req.op = "get_by_id_with_names" ->
            UrlGetByIdWithNames(scheme, req.id, req.first, req.last)

Requests(ids, names) ==
    {Req("next", U64Zero, "", "")}
    \cup {Req("next_with_names", U64Zero, f, l) : f \in names, l \in names}
    \cup {Req("get_by_id", i, "", "") : i \in ids}
    \cup {Req("get_by_id_with_names", i, f, l) : i \in ids, f \in names, l \in names}

(***************************************************************************)
(* What the transport may answer: send() fails, or it returns a response   *)
(* whose body either cannot be read to a string or reads as `body`.        *)
(***************************************************************************)
NoBody == NotJson("")
SendErr(e) == [t |-> "Err", e |-> e, io |-> "", body |-> NoBody]
SendOkUnreadable(io) == [t |-> "Ok", e |-> "", io |-> io, body |-> NoBody]
SendOk(body) == [t |-> "Ok", e |-> "", io |-> "", body |-> body]
NoResponse == [t |-> "None", e |-> "", io |-> "", body |-> NoBody]

\* the exact envelope {"value":{"id":I,"joke":J,"categories":C}}
Payload(id, joke, cats) ==
    JObj(<< <<"id", JUInt(id)>>, <<"joke", JStr(joke)>>,
            <<"categories", JArr([i \in 1..Len(cats) |-> JStr(cats[i])])>> >>)
Envelope(id, joke, cats) == JObj(<< <<"value", Payload(id, joke, cats)>> >>)
\* the envelope as the service sends it, with its "type" member
TypedEnvelope(id, joke, cats) ==
    JObj(<< <<"type", JStr("success")>>, <<"value", Payload(id, joke, cats)>> >>)

(***************************************************************************)
(* The inputs the model draws from.                                        *)
(***************************************************************************)
\* pieces of a joke text: the entity, its two halves split in two ways, the
\* character it stands for and plain text
Frags == {"&quot;", "&quo", "t;", "&", "quot;", "\"", "hi"}

RECURSIVE TextsOf(_)
TextsOf(n) ==
    IF n = 0 THEN {""}
    ELSE LET prev == TextsOf(n - 1)
         IN prev \cup {p \o f : p \in prev, f \in Frags}

JokeTexts == TextsOf(MaxFrags)

Tags == {"nerdy", "explicit"}
CatLists == UNION {[1..n -> Tags] : n \in 0..MaxCats}

SomeIds == {U64Zero, U64(0, 0, 0, 7), U64(0, 0, 0, 23), U64(0, 0, 0, 100),
            U64(0, 0, 1, 0), U64(0, 1, 0, 0), U64(1, 0, 0, 0),
            U64(0, 0, 0, 65535), U64MAX}
SomeNames == {"Maximus", "Hardcorion", "", "A&B", "a b", "x=1?"}

\* the requests of the interleaved runs: each operation once
SmallRequests == Requests({U64(0, 0, 0, 23)}, {"Maximus"})
\* the requests of the URL runs
UrlRequests == Requests(SomeIds, SomeNames)

\* the answers of the interleaved runs
SmallResponses ==
    {SendErr("ConnectionRefused"),
     SendOkUnreadable("InvalidData"),
     SendOk(NotJson("not json")),
     SendOk(Envelope(U64(0, 0, 0, 1), "Chuck Norris said &quot;hi&quot;", <<>>)),
     SendOk(TypedEnvelope(U64(0, 0, 0, 23), "Maximus Hardcorion", <<"nerdy">>))}

\* well-formed envelopes over every joke text
TextBodies ==
    {Envelope(U64(0, 0, 0, 1), j, <<>>) : j \in JokeTexts}
    \cup {TypedEnvelope(U64MAX, j, <<"nerdy">>) : j \in JokeTexts}

\* values a member may carry, of the field's type and of other types
IdValues == {JUInt(U64Zero), JUInt(U64(0, 0, 0, 23)), JUInt(U64MAX),
             JNum("negint", U64(0, 0, 0, 1)), JNum("float", U64Zero),
             JStr("23"), JNull}
JokeValues == {JStr("hi"), JStr("say &quot;hi&quot;"), JUInt(U64(0, 0, 0, 1)), JNull}
CatValues == {JArr([i \in 1..Len(c) |-> JStr(c[i])]) : c \in CatLists}
             \cup {JArr(<<JUInt(U64Zero)>>), JStr("nerdy"), JNull}

Member(name, values) == {<<>>} \cup {<< <<name, v>> >> : v \in values}
Extra == {<<>>, << <<"extra", JBool(TRUE)>> >>}

\* payloads: each field absent or present with any of its values, in
\* declaration order or not, with or without a member of another name, a
\* repeated member, the positional form, and values that are no struct
Payloads ==
    {JObj(x \o i \o j \o c) : x \in Extra, i \in Member("id", IdValues),
         j \in Member("joke", JokeValues), c \in Member("categories", CatValues)}
    \cup {JObj(c \o j \o i \o x) : x \in Extra, i \in Member("id", {JUInt(U64(0, 0, 0, 23))}),
         j \in Member("joke", JokeValues), c \in Member("categories", CatValues)}
    \cup {JObj(<< <<"id", JUInt(U64Zero)>>, <<"id", JUInt(U64Zero)>>,
               <<"joke", JStr("hi")>>, <<"categories", JArr(<<>>)>> >>)}
    \cup {JArr(<<i, j, c>>) : i \in {JUInt(U64(0, 0, 0, 23)), JNull},
                              j \in {JStr("say &quot;hi&quot;"), JNull},
                              c \in {JArr(<<JStr("nerdy")>>), JNull}}
    \cup {JArr(<<>>), JArr(<<JUInt(U64Zero), JStr("hi"), JArr(<<>>), JNull>>),
          JNull, JStr("hi")}

\* envelopes of every shape
ShapeBodies ==
    {JObj(<< <<"value", p>> >>) : p \in Payloads}
    \cup {JObj(<< <<"type", JStr("success")>>, <<"value", p>> >>) : p \in Payloads}
    \cup {JObj(<< <<"value", p>>, <<"value", p>> >>) : p \in Payloads}
    \cup {JArr(<<p>>) : p \in Payloads}
    \cup {JArr(<<p, p>>) : p \in Payloads}
    \cup Payloads
    \cup {JObj(<<>>), JObj(<< <<"type", JStr("NoSuchQuoteException")>> >>),
          NotJson("not json"), NotJson(""), JUInt(U64Zero)}

DecodeResponses ==
    {SendOk(b) : b \in TextBodies \cup ShapeBodies}
    \cup {SendErr("ConnectionRefused"), SendOkUnreadable("InvalidData")}

(***************************************************************************)
(* The state: the client's scheme and, per call, the locals of the         *)
(* operation and of read_response.                                         *)
(***************************************************************************)
VARIABLES
    protocol,     \* PROTOCOL, fixed by the build
    pc,           \* where each call is: idle, built, sent, read, done
    request,      \* the operation called and its arguments
    request_url,  \* the URL formatted for it
    response,     \* what client.get(url).send() returned
    buf,          \* the String read_response reads the body into
    result,       \* what the call returned: Pending until it returns
    stages,       \* the stages the call has run, in order
    twice         \* the joke unescaped a second time (<<>> until then)

vars == <<protocol, pc, request, request_url, response, buf, result, stages, twice>>

Pending == [st |-> "Pending"]
Success(joke) == [st |-> "Success", joke |-> joke]
Failed(error) == [st |-> "Failed", error |-> error]
Returned(r) == IF r.ok THEN Success(r.v) ELSE Failed(r.err)

Init ==
    /\ protocol \in {"http", "https"}
    /\ pc = [c \in Calls |-> "idle"]
    /\ request = [c \in Calls |-> Req("none", U64Zero, "", "")]
    /\ request_url = [c \in Calls |-> ""]
    /\ response = [c \in Calls |-> NoResponse]
    /\ buf = [c \in Calls |-> NoBody]
    /\ result = [c \in Calls |-> Pending]
    /\ stages = [c \in Calls |-> <<>>]
    /\ twice = [c \in Calls |-> <<>>]

\* next / next_with_names / get_by_id / get_by_id_with_names, first line:
\* the URL is formatted
Request(c, reqs) ==
    /\ pc[c] = "idle"
    /\ \E req \in reqs :
          /\ request' = [request EXCEPT ![c] = req]
          /\ request_url' = [request_url EXCEPT ![c] = RequestUrl(protocol, req)]
    /\ pc' = [pc EXCEPT ![c] = "built"]
    /\ UNCHANGED <<protocol, response, buf, result, stages, twice>>

\* execute_request: self.client.get(url).send()
Send(c, answers) ==
    /\ pc[c] = "built"
    /\ \E r \in answers : response' = [response EXCEPT ![c] = r]
    /\ stages' = [stages EXCEPT ![c] = Append(@, "send")]
    /\ pc' = [pc EXCEPT ![c] = "sent"]
    /\ UNCHANGED <<protocol, request, request_url, buf, result, twice>>

\* a buffer all calls share
ReadToStringShared(c, body) == [d \in Calls |-> body]

\* read_to_string(&mut buf) into the call's own buffer
ReadToString(c, body) == [buf EXCEPT ![c] = body]

\* read_response that has the request sent again when send() failed
ReadResponseRetry(c) ==
    /\ pc[c] = "sent"
    /\ IF response[c].t = "Err"
       THEN /\ result' = [result EXCEPT ![c] = Failed(FromHyperError(response[c].e))]
            /\ pc' = [pc EXCEPT ![c] = "built"]
            /\ UNCHANGED <<buf, stages>>
       ELSE /\ stages' = [stages EXCEPT ![c] = Append(@, "read")]
            /\ IF response[c].io # ""
               THEN /\ result' = [result EXCEPT ![c] = Failed(FromIoError(response[c].io))]
                    /\ pc' = [pc EXCEPT ![c] = "done"]
                    /\ UNCHANGED buf
               ELSE /\ buf' = ReadToString(c, response[c].body)
                    /\ pc' = [pc EXCEPT ![c] = "read"]
                    /\ UNCHANGED result
    /\ UNCHANGED <<protocol, request, request_url, response, twice>>

\* read_response up to the parse: `response?`, then read_to_string(..)?;
\* either error returns through unwrap_response unchanged
ReadResponse(c) ==
    /\ pc[c] = "sent"
    /\ IF response[c].t = "Err"
       THEN /\ result' = [result EXCEPT ![c] = Failed(FromHyperError(response[c].e))]
            /\ pc' = [pc EXCEPT ![c] = "done"]
            /\ UNCHANGED <<buf, stages>>
       ELSE /\ stages' = [stages EXCEPT ![c] = Append(@, "read")]
            /\ IF response[c].io # ""
               THEN /\ result' = [result EXCEPT ![c] = Failed(FromIoError(response[c].io))]
                    /\ pc' = [pc EXCEPT ![c] = "done"]
                    /\ UNCHANGED buf
               ELSE /\ buf' = ReadToString(c, response[c].body)
                    /\ pc' = [pc EXCEPT ![c] = "read"]
                    /\ UNCHANGED result
    /\ UNCHANGED <<protocol, request, request_url, response, twice>>

\* the rest of the call: serde_json::from_str(&buf), then unwrap_response
Decode(c) ==
    /\ pc[c] = "read"
    /\ LET parsed == ParseBuf(buf[c])
       IN /\ result' = [result EXCEPT ![c] = Returned(unwrap_response(parsed))]
          /\ stages' = [stages EXCEPT ![c] =
                           IF parsed.ok THEN @ \o <<"parse", "unescape">>
                           ELSE Append(@, "parse")]
    /\ pc' = [pc EXCEPT ![c] = "done"]
    /\ UNCHANGED <<protocol, request, request_url, response, buf, twice>>

\* unescape_content applied to the text of a joke it returned
UnescapeAgain(c) ==
    /\ pc[c] = "done"
    /\ result[c].st = "Success"
    /\ twice[c] = <<>>
    /\ twice' = [twice EXCEPT ![c] =
                    <<unescape_content([id |-> result[c].joke.id,
                                        joke |-> result[c].joke.content,
                                        categories |-> result[c].joke.categories])>>]
    /\ UNCHANGED <<protocol, pc, request, request_url, response, buf, result, stages>>

\* calls on one client, interleaved in any order
Next ==
    \E c \in Calls :
        \/ Request(c, SmallRequests)
        \/ Send(c, SmallResponses)
        \/ ReadResponse(c)
        \/ Decode(c)

Spec == Init /\ [][Next]_vars

\* one call, over every body shape and every joke text
NextDecode ==
    \/ Request(1, SmallRequests)
    \/ Send(1, DecodeResponses)
    \/ ReadResponse(1)
    \/ Decode(1)
    \/ UnescapeAgain(1)

SpecDecode == Init /\ [][NextDecode]_vars

\* the first call over every request, the later ones over each operation,
\* against a transport that refuses
NextUrl ==
    \E c \in Calls :
        \/ Request(c, IF c = 1 THEN UrlRequests ELSE SmallRequests)
        \/ Send(c, {SendErr("ConnectionRefused")})
        \/ ReadResponse(c)

SpecUrl == Init /\ [][NextUrl]_vars

(***************************************************************************)
(* Vocabulary of the properties: what a text, a body or a run is, said     *)
(* without the operators the model computes with.                          *)
(***************************************************************************)
Char(s, i) == SubSeq(s, i, i)

\* the positions where the entity starts in j; two of them never overlap
Occurrences(j) == {i \in 1..Len(j) : StartsWithAt(j, i, ENTITY)}

\* out is j with every occurrence of the entity replaced by one double-quote
\* character and every other character kept, in order
IsUnescapeOf(j, out) ==
    LET occ == Occurrences(j)
        shrink == Len(ENTITY) - Len(QUOTE)
        Before(k) == Cardinality({p \in occ : p < k})
        Covered(k) == \E p \in occ : p <= k /\ k < p + Len(ENTITY)
    IN /\ Len(out) = Len(j) - shrink * Cardinality(occ)
       /\ \A k \in 1..Len(j) :
             /\ k \in occ => Char(out, k - shrink * Before(k)) = QUOTE
             /\ ~Covered(k) => Char(out, k - shrink * Before(k)) = Char(j, k)

IsUInt(j) == j.t = "num" /\ j.v.kind = "uint"
IsStr(j) == j.t = "str"
IsStrArr(j) == j.t = "arr" /\ \A i \in 1..Len(j.v) : j.v[i].t = "str"

Named(j, name) == {i \in 1..Len(j.v) : j.v[i][1] = name}
HasOne(j, name) == Cardinality(Named(j, name)) = 1
The(j, name) == j.v[CHOOSE i \in Named(j, name) : TRUE][2]

\* the body is exactly {"value":{"id":I,"joke":J,"categories":C}}, as written
IsExactEnvelope(b) ==
    /\ b.t = "obj" /\ Len(b.v) = 1 /\ b.v[1][1] = "value"
    /\ LET p == b.v[1][2]
       IN /\ p.t = "obj" /\ Len(p.v) = 3
          /\ p.v[1][1] = "id" /\ IsUInt(p.v[1][2])
          /\ p.v[2][1] = "joke" /\ IsStr(p.v[2][2])
          /\ p.v[3][1] = "categories" /\ IsStrArr(p.v[3][2])

\* an object with the members `names` only, each once, in any order
OnlyMembers(j, names) ==
    /\ j.t = "obj"
    /\ Len(j.v) = Cardinality(names)
    /\ \A n \in names : HasOne(j, n)

\* the top-level shape is the object {"value":{id, joke, categories}} and
\* nothing besides
StrictShape(b) ==
    /\ OnlyMembers(b, {"value"})
    /\ LET p == The(b, "value")
       IN /\ OnlyMembers(p, {"id", "joke", "categories"})
          /\ IsUInt(The(p, "id"))
          /\ IsStr(The(p, "joke"))
          /\ IsStrArr(The(p, "categories"))

\* a payload: an object with one id, one joke and one categories member of
\* the right types among members of any other name, or the three by position
PayloadShape(p) ==
    \/ /\ p.t = "obj"
       /\ HasOne(p, "id") /\ IsUInt(The(p, "id"))
       /\ HasOne(p, "joke") /\ IsStr(The(p, "joke"))
       /\ HasOne(p, "categories") /\ IsStrArr(The(p, "categories"))
    \/ /\ p.t = "arr" /\ Len(p.v) = 3
       /\ IsUInt(p.v[1]) /\ IsStr(p.v[2]) /\ IsStrArr(p.v[3])

\* an envelope: an object with one value member holding a payload among
\* members of any other name, or the payload alone in an array
EnvelopeShape(b) ==
    \/ /\ b.t = "obj" /\ HasOne(b, "value") /\ PayloadShape(The(b, "value"))
    \/ /\ b.t = "arr" /\ Len(b.v) = 1 /\ PayloadShape(b.v[1])

\* the call got a response and read its body to text
ReadOk(c) == response[c].t = "Ok" /\ response[c].io = ""
Returns(c) == pc[c] = "done"

(***************************************************************************)
(* The properties.                                                         *)
(***************************************************************************)

\* C1: a Joke returned by any of the four operations has a content with no
\* occurrence of `&quot;`, whatever joke text the server sent.
C1_ContentHasNoEntity ==
    \A c \in Calls :
        result[c].st = "Success" => ~Contains(result[c].joke.content, ENTITY)

\* the server sent `&quo&quot;t;`, an entity inside the two halves of another,
\* and the call returned `&quo"t;`
C1_Witness ==
    \E c \in Calls :
        /\ response[c] = SendOk(Envelope(U64(0, 0, 0, 1), "&quo&quot;t;", <<>>))
        /\ result[c].st = "Success"
        /\ result[c].joke.content = "&quo\"t;"

\* C2: the body {"value":{"id":I,"joke":J,"categories":C}} decodes to the Joke
\* with id I, categories C in their order and content J with every `&quot;`
\* replaced by a double quote and nothing else changed, which is what the
\* unconditional replacement gives, with or without the entity in J.
C2_DecodesEnvelope ==
    \A c \in Calls :
        (Returns(c) /\ ReadOk(c) /\ IsExactEnvelope(response[c].body)) =>
            LET p == response[c].body.v[1][2]
                I == p.v[1][2].v.n
                J == p.v[2][2].v
                C == p.v[3][2].v
            IN /\ result[c].st = "Success"
               /\ result[c].joke.id = I
               /\ Len(result[c].joke.categories) = Len(C)
               /\ \A i \in 1..Len(C) : result[c].joke.categories[i] = C[i].v
               /\ IsUnescapeOf(J, result[c].joke.content)
               /\ result[c].joke.content = Replace(J, ENTITY, QUOTE)

\* the envelope of the spec's example with two tags, decoded
C2_Witness ==
    \E c \in Calls :
        /\ response[c] = SendOk(Envelope(U64(0, 0, 0, 23), "say &quot;hi&quot;",
                                         <<"nerdy", "explicit">>))
        /\ result[c] = Success([id |-> U64(0, 0, 0, 23), content |-> "say \"hi\"",
                                categories |-> <<"nerdy", "explicit">>])

\* C3: when the transport call succeeded and the body was read to text, a
\* failure is of kind Api, and a text that is no JSON at all is such a failure.
C3_ParseFailureIsApi ==
    \A c \in Calls :
        (Returns(c) /\ ReadOk(c)) =>
            /\ result[c].st = "Failed" => result[c].error.kind = "Api"
            /\ ~EnvelopeShape(response[c].body) => result[c].st = "Failed"

\* the text `not json` was read and the call failed with Api
C3_Witness ==
    \E c \in Calls :
        /\ response[c] = SendOk(NotJson("not json"))
        /\ result[c].st = "Failed"
        /\ result[c].error.kind = "Api"

\* C7 as stated: a text is accepted only if its top-level shape is the object
\* {"value":{id, joke, categories}} with nothing besides, and every other
\* text is an Api error.
C7_OnlyStrictShapeAccepted ==
    \A c \in Calls :
        (Returns(c) /\ ReadOk(c)) =>
            IF StrictShape(response[c].body)
            THEN result[c].st = "Success"
            ELSE result[c].st = "Failed" /\ result[c].error.kind = "Api"

\* C7, amended: a text is accepted exactly when it is JSON that carries one
\* `value` member holding one id (unsigned integer), one joke (string) and one
\* categories (array of strings) member, members of other names being ignored
\* at both levels and either struct also taken in its positional array form;
\* every other text is an Api error.
C7_EnvelopeShapeAccepted ==
    \A c \in Calls :
        (Returns(c) /\ ReadOk(c)) =>
            IF EnvelopeShape(response[c].body)
            THEN result[c].st = "Success"
            ELSE result[c].st = "Failed" /\ result[c].error.kind = "Api"

\* the envelope as the service sends it, with "type" beside "value", accepted
C7_Witness ==
    \E c \in Calls :
        /\ response[c] = SendOk(TypedEnvelope(U64MAX, "hi", <<"nerdy">>))
        /\ result[c].st = "Success"

\* C8: unescaping an unescaped text changes nothing, and unescaping a text
\* without `&quot;` returns that text.
C8_UnescapeIdempotent ==
    \A c \in Calls :
        /\ twice[c] # <<>> => twice[c][1] = result[c].joke
        /\ (result[c].st = "Success" /\ ~Contains(ParseBuf(buf[c]).v.value.joke, ENTITY))
              => result[c].joke.content = ParseBuf(buf[c]).v.value.joke

\* `&quot;quot;` was unescaped to `"quot;` and unescaped again
C8_Witness ==
    \E c \in Calls :
        /\ response[c] = SendOk(Envelope(U64(0, 0, 0, 1), "&quot;quot;", <<>>))
        /\ twice[c] # <<>>
        /\ twice[c][1].content = "\"quot;"

\* C4: when send() fails, the call returns an error of kind Network (for
\* each of the four operations), and neither the read of the body nor the
\* parse is attempted.
C4_TransportFailureIsNetwork ==
    \A c \in Calls :
        response[c].t = "Err" =>
            /\ stages[c] = <<"send">>
            /\ Returns(c) =>
                  /\ result[c].st = "Failed"
                  /\ result[c].error = [kind |-> "Network", cause |-> response[c].e]

\* get_by_id_with_names met a refused connection and returned Network
C4_Witness ==
    \E c \in Calls :
        /\ request[c].op = "get_by_id_with_names"
        /\ response[c] = SendErr("ConnectionRefused")
        /\ result[c].st = "Failed"
        /\ result[c].error.kind = "Network"

\* C5: when send() succeeds and reading the body to text fails, the call
\* returns an error of kind IO, and the parse is not attempted.
C5_ReadFailureIsIO ==
    \A c \in Calls :
        (response[c].t = "Ok" /\ response[c].io # "") =>
            /\ stages[c] \in {<<"send">>, <<"send", "read">>}
            /\ Returns(c) =>
                  /\ stages[c] = <<"send", "read">>
                  /\ result[c].st = "Failed"
                  /\ result[c].error = [kind |-> "IO", cause |-> response[c].io]

\* a body of invalid encoding was met and the call returned IO
C5_Witness ==
    \E c \in Calls :
        /\ response[c] = SendOkUnreadable("InvalidData")
        /\ result[c].st = "Failed"
        /\ result[c].error.kind = "IO"

IsDigit(ch) == \E d \in 1..10 : Char("0123456789", d) = ch
DigitValue(ch) == (CHOOSE d \in 1..10 : Char("0123456789", d) = ch) - 1

\* n * 10 + carry on limbs i down to 1 of n
RECURSIVE TimesTenPlus(_, _, _)
TimesTenPlus(n, i, carry) ==
    IF i = 0 THEN <<>>
    ELSE LET cur == n[i] * 10 + carry
         IN TimesTenPlus(n, i - 1, cur \div 65536) \o <<cur % 65536>>

\* the number the digits s[i..] continue acc to, on five limbs (x ranges
\* over the one value acc continues to with the digit s[i])
RECURSIVE ValueOf(_, _, _)
ValueOf(s, i, acc) ==
    IF i > Len(s) THEN acc
    ELSE CHOOSE v \in {ValueOf(s, i + 1, x) :
                          x \in {TimesTenPlus(acc, 5, DigitValue(Char(s, i)))}} : TRUE

\* s is the decimal literal of the u64 id
IsDecimalOf(s, id) ==
    /\ Len(s) \in 1..20
    /\ \A i \in 1..Len(s) : IsDigit(Char(s, i))
    /\ Len(s) > 1 => Char(s, 1) # "0"
    /\ ValueOf(s, 1, <<0, 0, 0, 0, 0>>) = <<0>> \o id

\* C6: the URL of each operation is {scheme}://api.icndb.com/jokes/ followed
\* by `random` or the id's decimal literal, then, with names, by
\* ?firstName=F&lastName=L with F and L verbatim; the scheme is http or https
\* and the same for every call.
C6_RequestUrl ==
    /\ protocol \in {"http", "https"}
    /\ \A c \in Calls :
          pc[c] # "idle" =>
             LET r == request[c]
                 u == request_url[c]
                 base == protocol \o "://api.icndb.com/jokes/"
                 query == "?firstName=" \o r.first \o "&lastName=" \o r.last
                 tail == IF r.op = "get_by_id_with_names" THEN query ELSE ""
                 middle == SubSeq(u, Len(base) + 1, Len(u) - Len(tail))
             IN CASE r.op = "next" -> u = base \o "random"
                  [] r.op = "next_with_names" -> u = base \o "random" \o query
                  [] OTHER ->
                       /\ Len(u) > Len(base) + Len(tail)
                       /\ SubSeq(u, 1, Len(base)) = base
                       /\ SubSeq(u, Len(u) - Len(tail) + 1, Len(u)) = tail
                       /\ IsDecimalOf(middle, r.id)

\* the largest id and names with `&`, `=` and `?` in them, requested
C6_Witness ==
    \E c \in Calls :
        /\ request[c] = Req("get_by_id_with_names", U64MAX, "A&B", "x=1?")
        /\ request_url[c] = protocol \o
              "://api.icndb.com/jokes/18446744073709551615?firstName=A&B&lastName=x=1?"
        /\ stages[c] = <<"send">>

\* what a call returns, by the first stage that fails: the transport, then
\* the read, then the parse
FirstFailure(c) ==
    IF response[c].t = "Err" THEN "Network"
    ELSE IF response[c].io # "" THEN "IO"
    ELSE IF ~EnvelopeShape(response[c].body) THEN "Api"
    ELSE "None"

\* a call is Pending until it returns, then has the one outcome its first
\* failing stage decides, after exactly one transport call
OneOutcome(c) ==
    /\ result[c].st \in {"Pending", "Success", "Failed"}
    /\ result[c].st = "Pending" <=> ~Returns(c)
    /\ Cardinality({i \in 1..Len(stages[c]) : stages[c][i] = "send"}) <= 1
    /\ Returns(c) =>
          /\ stages[c][1] = "send"
          /\ IF FirstFailure(c) = "None"
             THEN result[c].st = "Success"
             ELSE result[c].st = "Failed" /\ result[c].error.kind = FirstFailure(c)

\* C9: each call leaves Pending once, to Success or to Failed with the one
\* error of its first failing stage, and nothing happens for it afterwards:
\* no further transport call, no retry, no other outcome.
C9_OneTerminalTransition ==
    [][\A c \in Calls :
          /\ OneOutcome(c)
          /\ OneOutcome(c)'
          /\ result[c].st # "Pending" =>
                /\ result'[c] = result[c]
                /\ stages'[c] = stages[c]
                /\ pc'[c] = pc[c]
                /\ response'[c] = response[c]]_vars

\* one call failed at the parse and another returned a joke
C9_Witness ==
    \E c, d \in Calls :
        /\ Returns(c) /\ Returns(d)
        /\ result[c].st = "Failed" /\ result[c].error.kind = "Api"
        /\ stages[c] = <<"send", "read", "parse">>
        /\ result[d].st = "Success"
        /\ stages[d] = <<"send", "read", "parse", "unescape">>

\* what a call with this transport answer returns
Outcome(r) ==
    IF r.t = "Err" THEN Failed(FromHyperError(r.e))
    ELSE IF r.io # "" THEN Failed(FromIoError(r.io))
    ELSE Returned(unwrap_response(ParseBuf(r.body)))

\* the state of call c
Locals(c) == <<pc[c], request[c], request_url[c], response[c], buf[c], result[c],
               stages[c], twice[c]>>

\* what a step gives call c comes from c's own arguments and own answer
OwnStep(c) ==
    /\ (pc[c] = "idle" /\ pc'[c] = "built") =>
          request_url'[c] = RequestUrl(protocol, request'[c])
    /\ (pc[c] = "sent" /\ pc'[c] = "read") => buf'[c] = response[c].body
    /\ (~Returns(c) /\ pc'[c] = "done") => result'[c] = Outcome(response[c])
    /\ Returns(c) => Locals(c)' = Locals(c)

\* C10: with calls interleaved in any order on one client, a step of one call
\* changes nothing another call holds, what a call builds, reads and returns
\* is determined by its own arguments and its own answer, whatever the other
\* calls did, and calls with the same answer return equal results.
C10_CallsIndependent ==
    [][/\ \A c \in Calls : OwnStep(c)
       /\ \A c, d \in Calls :
             (pc'[c] = "done" /\ pc'[d] = "done" /\ response'[c] = response'[d])
                => result'[c] = result'[d]
       /\ \E c \in Calls : \A d \in Calls \ {c} : Locals(d)' = Locals(d)]_vars

\* two calls got the same body and returned equal jokes
C10_Witness ==
    \E c, d \in Calls :
        /\ c # d
        /\ response[c] = response[d]
        /\ result[c].st = "Success"
        /\ result[d] = result[c]

====
